---------------------------- MODULE Spec2Model ----------------------------
(***************************************************************************)
(* Model of app.py: the "Run Audit" handler of the entity auditor and the  *)
(* three functions it calls (scrape_body_text, analyze_entities,           *)
(* llm_audit_gemini).                                                      *)
(*                                                                         *)
(* Python strings that the code inspects (the URL box, the scraped text,   *)
(* entity names, formatted scores) are sequences of one-character strings, *)
(* so strip, split, the substring test and the joins are computed.  Fixed  *)
(* labels that the code only copies (Status, Verdict, Action) are TLA+     *)
(* strings.  Python dicts are records; None is the record None.  A         *)
(* salience is an integer number of thousandths (250 is 0.25).             *)
(***************************************************************************)
EXTENDS Integers, Sequences, FiniteSets, TLC

VARIABLES
    urls_input,     \* contents of the text area when the button is pressed
    pc,             \* position of the handler
    urls,           \* urls_input.strip().split('\n')
    i,              \* 1-based index of the line the loop is at (Python i + 1)
    results,        \* the list of result dicts
    text,           \* text returned by scrape_body_text for the current line
    entities,       \* response.entities of the last analyze_entities call
    main_entity,    \* first value returned by analyze_entities
    sub_entities,   \* second value returned by analyze_entities
    progress_bar,   \* values passed to progress_bar.progress, as <<num, den>>
    result_lines,   \* history: the line that appended each element of results
    scrape_log,     \* history: calls of scrape_body_text
    nlp_log,        \* history: calls of analyze_entities
    audit_log       \* history: calls of llm_audit_gemini

vars ==
    <<urls_input, pc, urls, i, results, text, entities, main_entity,
      sub_entities, progress_bar, result_lines, scrape_log, nlp_log,
      audit_log>>

(***************************************************************************)
(* Bounds                                                                  *)
(***************************************************************************)
\* longest text-area content, in characters: five characters hold three
\* one-character URLs, or two URLs around a blank line
MaxInput ==
    5

\* longest entity list drawn for the ranking specification
MaxEntities ==
    7

(***************************************************************************)
(* String literals of the source                                           *)
(***************************************************************************)
\* 5 characters: 'ERROR'
ERROR ==
    <<"E", "R", "R", "O", "R">>
\* 67 characters: 'ERROR: Access Denied (403). The website likely blocked the scraper.'
AccessDenied ==
    <<"E", "R", "R", "O", "R", ":", " ", "A", "c", "c", "e", "s", "s", " ",
      "D", "e", "n", "i", "e", "d", " ", "(", "4", "0", "3", ")", ".", " ",
      "T", "h", "e", " ", "w", "e", "b", "s", "i", "t", "e", " ", "l", "i",
      "k", "e", "l", "y", " ", "b", "l", "o", "c", "k", "e", "d", " ", "t",
      "h", "e", " ", "s", "c", "r", "a", "p", "e", "r", ".">>
\* 19 characters: 'ERROR: Status Code '
StatusCodePrefix ==
    <<"E", "R", "R", "O", "R", ":", " ", "S", "t", "a", "t", "u", "s", " ",
      "C", "o", "d", "e", " ">>
\* 7 characters: 'ERROR: '
ErrorPrefix ==
    <<"E", "R", "R", "O", "R", ":", " ">>
\* 63 characters: 'Google NLP found no topics. Text might be too short or blocked.'
NoTopics ==
    <<"G", "o", "o", "g", "l", "e", " ", "N", "L", "P", " ", "f", "o", "u",
      "n", "d", " ", "n", "o", " ", "t", "o", "p", "i", "c", "s", ".", " ",
      "T", "e", "x", "t", " ", "m", "i", "g", "h", "t", " ", "b", "e", " ",
      "t", "o", "o", " ", "s", "h", "o", "r", "t", " ", "o", "r", " ", "b",
      "l", "o", "c", "k", "e", "d", ".">>

(***************************************************************************)
(* Inputs: exception messages, page texts and entity names                 *)
(***************************************************************************)
\* 9 characters: 'timed out'
TimedOut ==
    <<"t", "i", "m", "e", "d", " ", "o", "u", "t">>
\* 14 characters: 'quota exceeded'
QuotaExceeded ==
    <<"q", "u", "o", "t", "a", " ", "e", "x", "c", "e", "e", "d", "e", "d">>
\* 41 characters: 'Expecting value: line 1 column 1 (char 0)'
ExpectingValue ==
    <<"E", "x", "p", "e", "c", "t", "i", "n", "g", " ", "v", "a", "l", "u",
      "e", ":", " ", "l", "i", "n", "e", " ", "1", " ", "c", "o", "l", "u",
      "m", "n", " ", "1", " ", "(", "c", "h", "a", "r", " ", "0", ")">>
\* 9 characters: 'On topic.'
OnTopic ==
    <<"O", "n", " ", "t", "o", "p", "i", "c", ".">>
\* 49 characters: 'Emergency plumbers in London, open day and night.'
Page49 ==
    <<"E", "m", "e", "r", "g", "e", "n", "c", "y", " ", "p", "l", "u", "m",
      "b", "e", "r", "s", " ", "i", "n", " ", "L", "o", "n", "d", "o", "n",
      ",", " ", "o", "p", "e", "n", " ", "d", "a", "y", " ", "a", "n", "d",
      " ", "n", "i", "g", "h", "t", ".">>
\* 53 characters: 'Emergency plumbers in London and Leeds, open all week'
Page53 ==
    <<"E", "m", "e", "r", "g", "e", "n", "c", "y", " ", "p", "l", "u", "m",
      "b", "e", "r", "s", " ", "i", "n", " ", "L", "o", "n", "d", "o", "n",
      " ", "a", "n", "d", " ", "L", "e", "e", "d", "s", ",", " ", "o", "p",
      "e", "n", " ", "a", "l", "l", " ", "w", "e", "e", "k">>
\* 61 characters: 'Fixing the boiler ERROR codes: a guide for plumbers in London'
PageMid ==
    <<"F", "i", "x", "i", "n", "g", " ", "t", "h", "e", " ", "b", "o", "i",
      "l", "e", "r", " ", "E", "R", "R", "O", "R", " ", "c", "o", "d", "e",
      "s", ":", " ", "a", " ", "g", "u", "i", "d", "e", " ", "f", "o", "r",
      " ", "p", "l", "u", "m", "b", "e", "r", "s", " ", "i", "n", " ", "L",
      "o", "n", "d", "o", "n">>
\* 8 characters: 'Plumbers'
NamePlumbers ==
    <<"P", "l", "u", "m", "b", "e", "r", "s">>
\* 7 characters: 'plumber'
NamePlumber ==
    <<"p", "l", "u", "m", "b", "e", "r">>
\* 6 characters: 'London'
NameLondon ==
    <<"L", "o", "n", "d", "o", "n">>
\* 5 characters: 'Leeds'
NameLeeds ==
    <<"L", "e", "e", "d", "s">>
\* 6 characters: 'Boiler'
NameBoiler ==
    <<"B", "o", "i", "l", "e", "r">>
\* 7 characters: 'heating'
NameHeating ==
    <<"h", "e", "a", "t", "i", "n", "g">>
\* 3 characters: 'Gas'
NameGas ==
    <<"G", "a", "s">>

(***************************************************************************)
(* Python built-ins used by the handler                                    *)
(***************************************************************************)
None ==
    [none |-> TRUE]

Min(a, b) ==
    IF a < b THEN a ELSE b

\* the characters str.strip() removes, among those of the model
Whitespace ==
    {" ", "\n"}

RECURSIVE LStrip(_)
LStrip(s) ==
    IF s # <<>> /\ Head(s) \in Whitespace THEN LStrip(Tail(s)) ELSE s

RECURSIVE RStrip(_)
RStrip(s) ==
    IF s # <<>> /\ s[Len(s)] \in Whitespace
    THEN RStrip(SubSeq(s, 1, Len(s) - 1))
    ELSE s

\* s.strip()
Strip(s) ==
    RStrip(LStrip(s))

\* s.split(sep) for a one-character separator
RECURSIVE Split(_, _)
Split(s, sep) ==
    IF \E k \in 1..Len(s) : s[k] = sep
    THEN LET k == CHOOSE k \in 1..Len(s) :
                      s[k] = sep /\ \A j \in 1..(k - 1) : s[j] # sep
         IN  <<SubSeq(s, 1, k - 1)>> \o Split(SubSeq(s, k + 1, Len(s)), sep)
    ELSE <<s>>

\* needle in hay
Contains(needle, hay) ==
    \E k \in 0..(Len(hay) - Len(needle)) :
        SubSeq(hay, k + 1, k + Len(needle)) = needle

\* s[:n]
Take(s, n) ==
    SubSeq(s, 1, Min(Len(s), n))

\* sep.join(parts)
RECURSIVE Join(_, _)
Join(sep, parts) ==
    IF parts = <<>> THEN <<>>
    ELSE IF Len(parts) = 1 THEN parts[1]
    ELSE parts[1] \o sep \o Join(sep, Tail(parts))

Digit(d) ==
    <<"0", "1", "2", "3", "4", "5", "6", "7", "8", "9">>[d + 1]

\* str(n) for n >= 0
RECURSIVE IntToStr(_)
IntToStr(n) ==
    IF n < 10 THEN <<Digit(n)>> ELSE IntToStr(n \div 10) \o <<Digit(n % 10)>>

\* f"{score:.2f}" for a score given in thousandths.  The saliences of the
\* model never end in 5 thousandths, so the rounding has no tie to break.
Format2f(score) ==
    LET h == (score + 5) \div 10
    IN  IntToStr(h \div 100) \o <<".">> \o <<Digit((h \div 10) % 10)>>
            \o <<Digit(h % 10)>>

(***************************************************************************)
(* scrape_body_text                                                        *)
(***************************************************************************)
\* What session.get and the HTML clean-up can produce for one URL: an
\* exception, or a response with a status code and the cleaned page text.
HttpOutcomes ==
    {[kind |-> "exception", msg |-> TimedOut]}
    \cup {[kind |-> "response", status |-> s, clean_text |-> <<>>] :
             s \in {403, 500}}
    \cup {[kind |-> "response", status |-> 200, clean_text |-> t] :
             t \in {<<>>, Page49, Page53, PageMid}}

scrape_body_text(http) ==
    IF http.kind = "exception" THEN ErrorPrefix \o http.msg
    ELSE IF http.status = 403 THEN AccessDenied
    ELSE IF http.status # 200 THEN StatusCodePrefix \o IntToStr(http.status)
    ELSE Take(http.clean_text, 8000)

(***************************************************************************)
(* analyze_entities                                                        *)
(***************************************************************************)
Entity(name, salience) ==
    [name |-> name, salience |-> salience]

\* The list of the scenario in the specification.
PlumbersEntities ==
    <<Entity(NamePlumbers, 100), Entity(NamePlumber, 250),
      Entity(NameLondon, 50)>>

\* A list longer than the sub-entity slice, with a tie.
BoilerEntities ==
    <<Entity(NameLeeds, 31), Entity(NameBoiler, 412), Entity(NameGas, 87),
      Entity(NameHeating, 87), Entity(NamePlumbers, 136),
      Entity(NameLondon, 64), Entity(NamePlumber, 183)>>

\* What nlp_client.analyze_entities can produce in the batch model.
NlpOutcomes ==
    {[kind |-> "exception", entities |-> <<>>]}
    \cup {[kind |-> "response", entities |-> e] :
             e \in {<<>>, PlumbersEntities, BoilerEntities}}

\* Entities the ranking specification builds its lists from.
EntityPool ==
    {Entity(NamePlumbers, 100), Entity(NamePlumber, 250),
     Entity(NameLondon, 50), Entity(NameLeeds, 50)}

RankOutcomes ==
    {[kind |-> "response", entities |-> e] :
        e \in UNION {[1..n -> EntityPool] : n \in 0..MaxEntities}}

\* InsertBySalience with the comparison of a sort that is not stable: e goes
\* in front of the elements of equal salience.
InsertBySalience_Unstable(e, s) ==
    LET p == Cardinality({k \in 1..Len(s) : s[k].salience > e.salience})
    IN  SubSeq(s, 1, p) \o <<e>> \o SubSeq(s, p + 1, Len(s))

\* One step of sorted(..., reverse=True): e goes behind every element whose
\* salience is at least its own, so equal saliences keep their input order.
InsertBySalience(e, s) ==
    LET p == Cardinality({k \in 1..Len(s) : s[k].salience >= e.salience})
    IN  SubSeq(s, 1, p) \o <<e>> \o SubSeq(s, p + 1, Len(s))

\* sorted(response.entities, key=lambda x: x.salience, reverse=True)
RECURSIVE sorted_entities(_)
sorted_entities(s) ==
    IF s = <<>> THEN <<>>
    ELSE InsertBySalience(s[Len(s)],
                          sorted_entities(SubSeq(s, 1, Len(s) - 1)))

\* the slice [1:6] of the sorted list
SubSlice(s) ==
    SubSeq(s, 2, Min(Len(s), 6))

\* returns <<main_entity, sub_entities>>
analyze_entities(nlp) ==
    IF nlp.kind = "exception" THEN <<None, <<>>>>
    ELSE LET s == sorted_entities(nlp.entities)
         IN  IF s = <<>> THEN <<None, <<>>>>
             ELSE <<[name |-> s[1].name, score |-> s[1].salience],
                    [k \in 1..Len(SubSlice(s)) |-> SubSlice(s)[k].name]>>

(***************************************************************************)
(* llm_audit_gemini                                                        *)
(***************************************************************************)
\* What client.models.generate_content can produce: an exception, or a
\* response whose text is not JSON, is a JSON object with the three keys,
\* or is JSON of another type (an array).
GeminiOutcomes ==
    {[kind |-> "exception", msg |-> QuotaExceeded],
     [kind |-> "text", json |-> "invalid", msg |-> ExpectingValue],
     [kind |-> "text", json |-> "array"],
     [kind |-> "text", json |-> "object", verdict |-> "Pass",
      reasoning |-> OnTopic, recommendation |-> "Keep it."]}

\* the call failed or its output could not be parsed
AuditFailed(gemini) ==
    gemini.kind = "exception" \/ gemini.json = "invalid"

\* llm_audit_gemini with an except branch that falls back to a default
\* verdict and drops the message of the exception.
llm_audit_gemini_DefaultVerdict(gemini) ==
    IF AuditFailed(gemini)
    THEN [type |-> "dict", verdict |-> "Review Needed", reasoning |-> <<>>,
          recommendation |-> "Check API"]
    ELSE IF gemini.json = "object"
    THEN [type |-> "dict", verdict |-> gemini.verdict,
          reasoning |-> gemini.reasoning,
          recommendation |-> gemini.recommendation]
    ELSE [type |-> "list"]

\* the value returned: a dict (type "dict") or what json.loads made of a
\* text that is JSON but not an object (type "list")
llm_audit_gemini(gemini) ==
    IF AuditFailed(gemini)
    THEN [type |-> "dict", verdict |-> "Error", reasoning |-> gemini.msg,
          recommendation |-> "Check API"]
    ELSE IF gemini.json = "object"
    THEN [type |-> "dict", verdict |-> gemini.verdict,
          reasoning |-> gemini.reasoning,
          recommendation |-> gemini.recommendation]
    ELSE [type |-> "list"]

(***************************************************************************)
(* The "Run Audit" handler                                                 *)
(***************************************************************************)
InputChars ==
    {"a", " ", "\n"}

Inputs ==
    UNION {[1..n -> InputChars] : n \in 0..MaxInput}

\* url = url.strip() for the line the loop is at
url ==
    Strip(urls[i])

\* ScrapeBlocked without the test for the error sentinel
ScrapeBlocked_EmptyOnly(t) ==
    t = <<>>

\* the test "not text or "ERROR" in text"
ScrapeBlocked(t) ==
    t = <<>> \/ Contains(ERROR, t)

ScrapeBlockedRecord(u, t) ==
    [URL |-> u, Status |-> "Scrape Blocked", Verdict |-> "Fail",
     Reasoning |-> t, Action |-> "Check Headers"]

NoEntitiesRecord(u) ==
    [URL |-> u, Status |-> "No Entities Found", Verdict |-> "Fail",
     Reasoning |-> NoTopics, Action |-> "Review Scraped Text"]

AuditRecord(u, main, subs, audit) ==
    [URL |-> u, Main_Entity |-> main.name, Salience |-> Format2f(main.score),
     Sub_Entities |-> Join(<<",", " ">>, subs), Verdict |-> audit.verdict,
     Reasoning |-> audit.reasoning, Action |-> audit.recommendation]

Init ==
    /\ urls_input \in Inputs
    /\ pc = "idle"
    /\ urls = <<>>
    /\ i = 1
    /\ results = <<>>
    /\ text = <<>>
    /\ entities = <<>>
    /\ main_entity = None
    /\ sub_entities = <<>>
    /\ progress_bar = <<>>
    /\ result_lines = <<>>
    /\ scrape_log = <<>>
    /\ nlp_log = <<>>
    /\ audit_log = <<>>

\* The button is pressed: an empty box only warns, otherwise the box is
\* split into lines and the loop starts.
RunAudit ==
    /\ pc = "idle"
    /\ IF urls_input = <<>>
       THEN /\ pc' = "done"
            /\ urls' = urls
       ELSE /\ pc' = "loop"
            /\ urls' = Split(Strip(urls_input), "\n")
    /\ UNCHANGED <<urls_input, i, results, text, entities, main_entity,
                   sub_entities, progress_bar, result_lines, scrape_log,
                   nlp_log, audit_log>>

\* "if not url: continue"
SkipBlank ==
    /\ pc = "loop"
    /\ i <= Len(urls)
    /\ url = <<>>
    /\ i' = i + 1
    /\ UNCHANGED <<urls_input, pc, urls, results, text, entities,
                   main_entity, sub_entities, progress_bar, result_lines,
                   scrape_log, nlp_log, audit_log>>

\* Step 1 of an iteration: scrape, and record a blocked scrape.
Scrape ==
    /\ pc = "loop"
    /\ i <= Len(urls)
    /\ url # <<>>
    /\ \E http \in HttpOutcomes :
        LET t == scrape_body_text(http)
        IN  /\ text' = t
            /\ scrape_log' = Append(scrape_log,
                                    [line |-> i, url |-> url, text |-> t])
            /\ IF ScrapeBlocked(t)
               THEN /\ results' = Append(results, ScrapeBlockedRecord(url, t))
                    /\ result_lines' = Append(result_lines, i)
                    /\ i' = i + 1
                    /\ pc' = "loop"
               ELSE /\ pc' = "scraped"
                    /\ UNCHANGED <<results, result_lines, i>>
    /\ UNCHANGED <<urls_input, urls, entities, main_entity, sub_entities,
                   progress_bar, nlp_log, audit_log>>

\* Step 2: entity analysis of the scraped text, drawn from outcomes, and
\* the record of an item without a main entity.
AnalyzeFrom(outcomes) ==
    /\ pc = "scraped"
    /\ \E nlp \in outcomes :
        LET r == analyze_entities(nlp)
        IN  /\ entities' = nlp.entities
            /\ main_entity' = r[1]
            /\ sub_entities' = r[2]
            /\ nlp_log' = Append(nlp_log,
                                 [line |-> i, text |-> text,
                                  failed |-> (nlp.kind = "exception"),
                                  entities |-> nlp.entities])
            /\ IF r[1] = None
               THEN /\ results' = Append(results, NoEntitiesRecord(url))
                    /\ result_lines' = Append(result_lines, i)
                    /\ i' = i + 1
                    /\ pc' = "loop"
               ELSE /\ pc' = "analyzed"
                    /\ UNCHANGED <<results, result_lines, i>>
    /\ UNCHANGED <<urls_input, urls, text, progress_bar, scrape_log,
                   audit_log>>

Analyze ==
    AnalyzeFrom(NlpOutcomes)

\* Step 3: the audit, the record of the item and the progress report.  A
\* returned value without a get method raises out of the handler.
Audit ==
    /\ pc = "analyzed"
    /\ \E gemini \in GeminiOutcomes :
        LET audit == llm_audit_gemini(gemini)
        IN  /\ audit_log' = Append(audit_log,
                                   [line |-> i, failed |-> AuditFailed(gemini),
                                    detail |-> IF AuditFailed(gemini)
                                               THEN gemini.msg ELSE <<>>])
            /\ IF audit.type = "dict"
               THEN /\ results' = Append(results,
                                         AuditRecord(url, main_entity,
                                                     sub_entities, audit))
                    /\ result_lines' = Append(result_lines, i)
                    /\ progress_bar' = Append(progress_bar, <<i, Len(urls)>>)
                    /\ i' = i + 1
                    /\ pc' = "loop"
               ELSE /\ pc' = "raised"
                    /\ UNCHANGED <<results, result_lines, progress_bar, i>>
    /\ UNCHANGED <<urls_input, urls, text, entities, main_entity,
                   sub_entities, scrape_log, nlp_log>>

\* The loop is over: "Audit Complete!" and the results are displayed.
Finish ==
    /\ pc = "loop"
    /\ i > Len(urls)
    /\ pc' = "done"
    /\ UNCHANGED <<urls_input, urls, i, results, text, entities, main_entity,
                   sub_entities, progress_bar, result_lines, scrape_log,
                   nlp_log, audit_log>>

Next ==
    \/ RunAudit
    \/ SkipBlank
    \/ Scrape
    \/ Analyze
    \/ Audit
    \/ Finish

Spec ==
    Init /\ [][Next]_vars

(***************************************************************************)
(* Ranking specification: analyze_entities applied to every entity list of *)
(* at most MaxEntities entities drawn from EntityPool, for one scraped     *)
(* page.                                                                   *)
(***************************************************************************)
InitRank ==
    /\ urls_input = <<"a">>
    /\ pc = "scraped"
    /\ urls = <<<<"a">>>>
    /\ i = 1
    /\ results = <<>>
    /\ text = Page53
    /\ entities = <<>>
    /\ main_entity = None
    /\ sub_entities = <<>>
    /\ progress_bar = <<>>
    /\ result_lines = <<>>
    /\ scrape_log = <<[line |-> 1, url |-> <<"a">>, text |-> Page53]>>
    /\ nlp_log = <<>>
    /\ audit_log = <<>>

AnalyzeRank ==
    AnalyzeFrom(RankOutcomes)

NextRank ==
    \/ AnalyzeRank
    \/ Audit
    \/ Finish

SpecRank ==
    InitRank /\ [][NextRank]_vars

TypeOK ==
    /\ pc \in {"idle", "loop", "scraped", "analyzed", "raised", "done"}
    /\ i \in 1..(Len(urls) + 1)
    /\ Len(results) = Len(result_lines)

(***************************************************************************)
(* Vocabulary of the properties                                            *)
(***************************************************************************)
Last(s) ==
    s[Len(s)]

StartsWith(prefix, s) ==
    Len(s) >= Len(prefix) /\ SubSeq(s, 1, Len(prefix)) = prefix

\* positions in results of the records appended for a line
RecordsOf(line) ==
    {k \in 1..Len(results) : result_lines[k] = line}

\* the lines the loop does not skip: the input items
ItemLines ==
    {k \in 1..Len(urls) : Strip(urls[k]) # <<>>}

\* the item lines in increasing order
ItemSeq ==
    LET n == Cardinality(ItemLines)
    IN  [r \in 1..n |->
            CHOOSE k \in ItemLines :
                Cardinality({j \in ItemLines : j < k}) = r - 1]

\* a record of an error path: it has a Status and no entity fields
IsErrorRecord(r) ==
    "Status" \in DOMAIN r

NlpCalled(line) ==
    \E c \in 1..Len(nlp_log) : nlp_log[c].line = line

AuditCalled(line) ==
    \E c \in 1..Len(audit_log) : audit_log[c].line = line

\* 1-based rank of the j-th entity: higher salience first, earlier first
\* among equal saliences
RankOf(ents, j) ==
    1 + Cardinality({k \in 1..Len(ents) :
            \/ ents[k].salience > ents[j].salience
            \/ ents[k].salience = ents[j].salience /\ k < j})

EntityAtRank(ents, r) ==
    ents[CHOOSE j \in 1..Len(ents) : RankOf(ents, j) = r]

\* names of the entities at ranks 2 .. most + 1
SubNames(ents, most) ==
    [r \in 1..Min(Len(ents) - 1, most) |-> EntityAtRank(ents, r + 1).name]

\* analyze_entities returned rank 1 as main and the next `most` as subs
RankedTop(most) ==
    (nlp_log # <<>> /\ ~Last(nlp_log).failed) =>
        IF entities = <<>>
        THEN main_entity = None /\ sub_entities = <<>>
        ELSE /\ main_entity = [name |-> EntityAtRank(entities, 1).name,
                               score |-> EntityAtRank(entities, 1).salience]
             /\ sub_entities = SubNames(entities, most)

UpperCase ==
    <<"A", "B", "C", "D", "E", "F", "G", "H", "I", "J", "K", "L", "M", "N",
      "O", "P", "Q", "R", "S", "T", "U", "V", "W", "X", "Y", "Z">>

LowerCase ==
    <<"a", "b", "c", "d", "e", "f", "g", "h", "i", "j", "k", "l", "m", "n",
      "o", "p", "q", "r", "s", "t", "u", "v", "w", "x", "y", "z">>

Lower(s) ==
    [k \in 1..Len(s) |->
        IF \E u \in 1..26 : UpperCase[u] = s[k]
        THEN LowerCase[CHOOSE u \in 1..26 : UpperCase[u] = s[k]]
        ELSE s[k]]

\* the merge key of the specification: lowercased, one trailing "s" removed
CanonicalKey(name) ==
    LET l == Lower(name)
    IN  IF Len(l) > 1 /\ l[Len(l)] = "s" THEN SubSeq(l, 1, Len(l) - 1) ELSE l

RECURSIVE KeySalience(_, _)
\* sum of the saliences of the entities of ents with the merge key key
KeySalience(ents, key) ==
    IF ents = <<>> THEN 0
    ELSE (IF CanonicalKey(ents[1].name) = key THEN ents[1].salience ELSE 0)
         + KeySalience(Tail(ents), key)

(***************************************************************************)
(* Properties                                                              *)
(***************************************************************************)
\* C1: when the handler stops, results holds exactly one record per input
\* item (a line that is not blank), and the r-th record is the record of
\* the r-th item, whatever failures the items hit.
C1_OneRecordPerItem ==
    pc \in {"done", "raised"} =>
        /\ Len(results) = Cardinality(ItemLines)
        /\ \A r \in 1..Len(results) :
            /\ result_lines[r] = ItemSeq[r]
            /\ results[r].URL = Strip(urls[ItemSeq[r]])

\* C2: a failure of the fetch, the entity extraction or the audit of one
\* item never aborts the batch: the handler never raises, and every item
\* the loop has passed has its record.
C2_FailureNeverAborts ==
    /\ pc # "raised"
    /\ \A k \in ItemLines : k < i => RecordsOf(k) # {}

\* C3: an item whose scraped text is shorter than 50 characters gets an
\* error record and entity extraction is never invoked for it.
C3_ShortTextNotAnalyzed ==
    \A s \in 1..Len(scrape_log) :
        Len(scrape_log[s].text) < 50 =>
            /\ ~NlpCalled(scrape_log[s].line)
            /\ \A k \in RecordsOf(scrape_log[s].line) :
                IsErrorRecord(results[k])

\* C4: entities sharing a canonical key are merged before ranking: the main
\* entity carries the summed salience of its key, which is the largest sum,
\* no sub-entity shares a key with the main entity or another sub-entity,
\* and the Plumbers list gives main "Plumbers" 0.35 with sub "London".
C4_MergedBeforeRanking ==
    pc = "analyzed" =>
        /\ main_entity.score
              = KeySalience(entities, CanonicalKey(main_entity.name))
        /\ \A j \in 1..Len(entities) :
              KeySalience(entities, CanonicalKey(entities[j].name))
                  <= main_entity.score
        /\ \A a \in 1..Len(sub_entities) :
              /\ CanonicalKey(sub_entities[a]) # CanonicalKey(main_entity.name)
              /\ \A b \in 1..Len(sub_entities) :
                    a # b => CanonicalKey(sub_entities[a])
                                 # CanonicalKey(sub_entities[b])
        /\ entities = PlumbersEntities =>
              /\ main_entity = [name |-> NamePlumbers, score |-> 350]
              /\ sub_entities = <<NameLondon>>

C6_AuditErrorKeepsEntities ==
    \A a \in 1..Len(audit_log) :
        audit_log[a].failed =>
            \E k \in RecordsOf(audit_log[a].line) :
            \E c \in 1..Len(nlp_log) :
                /\ nlp_log[c].line = audit_log[a].line
                /\ results[k].Verdict = "Error"
                /\ results[k].Reasoning = audit_log[a].detail
                /\ ~IsErrorRecord(results[k])
                /\ results[k].Main_Entity
                      = EntityAtRank(nlp_log[c].entities, 1).name
                /\ results[k].Salience
                      = Format2f(EntityAtRank(nlp_log[c].entities, 1).salience)
                /\ results[k].Sub_Entities
                      = Join(<<",", " ">>, SubNames(nlp_log[c].entities, 5))

\* C6 witness: a failed audit of an item that has sub-entities, whose
\* record has been appended.
C6_Witness ==
    \E a \in 1..Len(audit_log) :
        /\ audit_log[a].failed
        /\ audit_log[a].detail # <<>>
        /\ \E k \in RecordsOf(audit_log[a].line) :
            /\ results[k].Verdict = "Error"
            /\ results[k].Sub_Entities # <<>>

\* C7: every record of an error path without an audit verdict has the
\* sentinel "Error" as its status or verdict, and a Reasoning and an Action
\* that are not blank.
C7_ErrorSentinelNeverBlank ==
    \A k \in 1..Len(results) :
        IsErrorRecord(results[k]) =>
            /\ results[k].Status = "Error" \/ results[k].Verdict = "Error"
            /\ results[k].Reasoning # <<>>
            /\ results[k].Action # ""

\* C8: an item whose scraped text begins with "ERROR" gets exactly one
\* record, the scrape-failure record carrying that text, and neither entity
\* extraction nor the audit is invoked for it.
C8_ErrorPrefixIsFailure ==
    \A s \in 1..Len(scrape_log) :
        StartsWith(ERROR, scrape_log[s].text) =>
            /\ Cardinality(RecordsOf(scrape_log[s].line)) = 1
            /\ \A k \in RecordsOf(scrape_log[s].line) :
                /\ IsErrorRecord(results[k])
                /\ results[k].Status = "Scrape Blocked"
                /\ results[k].URL = scrape_log[s].url
                /\ results[k].Reasoning = scrape_log[s].text
            /\ ~NlpCalled(scrape_log[s].line)
            /\ ~AuditCalled(scrape_log[s].line)

\* C8 witness: the batch is over and one of its items had a scraped text
\* beginning with "ERROR", another one reached the audit.
C8_Witness ==
    /\ pc = "done"
    /\ audit_log # <<>>
    /\ \E s \in 1..Len(scrape_log) : StartsWith(ERROR, scrape_log[s].text)

\* C9: progress is reported once after each item completes, with a success
\* record or an error record, as (items completed, items total), and the
\* last report of a batch is N of N.
C9_ProgressAfterEachItem ==
    /\ pc \in {"loop", "done"} => Len(progress_bar) = Len(results)
    /\ \A r \in 1..Len(progress_bar) :
        progress_bar[r] = <<r, Cardinality(ItemLines)>>

\* C10: a scraped text that is not empty and does not begin with "ERROR" is
\* content: the item gets no scrape-failure record and entity extraction is
\* invoked on it, also when "ERROR" occurs later in the text.
C10_ErrorInsideIsContent ==
    \A s \in 1..Len(scrape_log) :
        (scrape_log[s].text # <<>> /\ ~StartsWith(ERROR, scrape_log[s].text))
        =>  /\ \A k \in RecordsOf(scrape_log[s].line) :
                ~IsErrorRecord(results[k])
                    \/ results[k].Status # "Scrape Blocked"
            /\ \/ pc = "scraped" /\ scrape_log[s].line = i
               \/ \E c \in 1..Len(nlp_log) :
                    /\ nlp_log[c].line = scrape_log[s].line
                    /\ nlp_log[c].text = scrape_log[s].text

============================================================================
